---- MODULE Spec2Model ----
(***************************************************************************)
(* A model of main.py: the process-wide TTL cache (_cache, get_cached,     *)
(* set_cache), the sheet and drive helpers, the two loaders (load_profile, *)
(* load_cars) and the request handlers of the HTTP API.                    *)
(*                                                                         *)
(* Python values that may be None are modelled as tagged records: PyNone,  *)
(* PyList(s), PyDict(f), PyStr(s).  Cell texts are sequences of one-       *)
(* character strings, so that str.strip() is computed and not assumed.     *)
(* Handlers run in a thread pool: a request is a process whose atomic      *)
(* steps end at its calls to the external store and file provider.         *)
(***************************************************************************)
EXTENDS Integers, Sequences, FiniteSets, TLC

\* now, cache and req are the program's state.  hist and obs record what the
\* program does not keep: hist is the history of the reads of the store (when
\* each was sent, and for each key when the read that produced its data was
\* sent), obs is the last direct call of get_cached.
VARIABLES now, cache, hist, req, obs

vars == <<now, cache, hist, req, obs>>

----------------------------------------------------------------------------
(* Configuration of main.py *)

CACHE_TTL_CARS == 300

CACHE_TTL_META == 1800

HERO_FOLDER_ID == <<"h">>

----------------------------------------------------------------------------
(* Bounds of the model *)

\* most data rows in a sheet returned by the store
MaxRows == 2

\* concurrent requests
Procs == {"r1", "r2"}

\* one request at a time
Solo == {"r1"}

\* the readings of time.time() the steps are taken at: an entry stored at 0
\* is exactly as old as its TTL at one of them and older at the next
CarsClock == {0, CACHE_TTL_CARS, CACHE_TTL_CARS + 1}

ProfileClock == {0, CACHE_TTL_META, CACHE_TTL_META + 1}

ClockReadings == CarsClock \cup ProfileClock

----------------------------------------------------------------------------
(* Python values *)

PyNone == [t |-> "None"]

PyList(s) == [t |-> "list", v |-> s]

PyDict(f) == [t |-> "dict", v |-> f]

PyStr(s) == [t |-> "str", v |-> s]

PyInt(n) == [t |-> "int", v |-> n]

\* a float with a finite decimal expansion: m / 10^e, with e as small as can be
PyFloat(m, e) == [t |-> "float", v |-> <<m, e>>]

\* float("nan")
PyNan == [t |-> "float", v |-> "nan"]

\* Python truth value testing, as used by `if cached:` and `if not item:`
Truthy(x) ==
    CASE x.t = "None" -> FALSE
      [] x.t = "list" -> x.v # <<>>
      [] x.t = "dict" -> DOMAIN x.v # {}
      [] x.t = "str"  -> x.v # <<>>

----------------------------------------------------------------------------
(* CACHE *)

\* _cache: Dict[str, Dict] = {}
EmptyCache == <<>>

\* _cache.get(key)
CacheItem(c, key) ==
    IF key \in DOMAIN c THEN PyDict(c[key]) ELSE PyNone

\* get_cached without its test of the age
get_cached_ignoring_ttl(c, key, ttl, t) ==
    IF key \notin DOMAIN c THEN PyNone ELSE c[key].data

\* get_cached with an entry expiring when its age reaches the ttl
get_cached_expiring_early(c, key, ttl, t) ==
    IF key \notin DOMAIN c THEN PyNone
    ELSE IF t - c[key].ts >= ttl THEN PyNone
    ELSE c[key].data

\* get_cached(key, ttl) evaluated at time t on cache c
get_cached(c, key, ttl, t) ==
    LET item == CacheItem(c, key) IN
    IF ~Truthy(item) THEN PyNone
    ELSE IF t - item.v.ts > ttl THEN PyNone
    ELSE item.v.data

\* a set_cache that keeps an entry already there
set_cache_keeping_first(c, key, data, t) ==
    IF key \in DOMAIN c THEN c
    ELSE [k \in DOMAIN c \cup {key} |->
            IF k = key THEN [data |-> data, ts |-> t] ELSE c[k]]

\* set_cache(key, data) evaluated at time t on cache c
set_cache(c, key, data, t) ==
    [k \in DOMAIN c \cup {key} |->
        IF k = key THEN [data |-> data, ts |-> t] ELSE c[k]]

----------------------------------------------------------------------------
(* Python helpers: str and dict operations used by the code *)

Whitespace == {" "}

RECURSIVE LStrip(_)
LStrip(s) ==
    IF s # <<>> /\ Head(s) \in Whitespace THEN LStrip(Tail(s)) ELSE s

RECURSIVE RStrip(_)
RStrip(s) ==
    IF s # <<>> /\ s[Len(s)] \in Whitespace
    THEN RStrip(SubSeq(s, 1, Len(s) - 1))
    ELSE s

\* str.strip()
Strip(s) == RStrip(LStrip(s))

LowerChar(ch) ==
    CASE ch = "J" -> "j"
      [] ch = "P" -> "p"
      [] ch = "G" -> "g"
      [] ch = "N" -> "n"
      [] ch = "E" -> "e"
      [] ch = "A" -> "a"
      [] OTHER -> ch

\* str.lower()
Lower(s) == [i \in DOMAIN s |-> LowerChar(s[i])]

\* str.endswith(suffix)
EndsWith(s, suffix) ==
    /\ Len(s) >= Len(suffix)
    /\ SubSeq(s, Len(s) - Len(suffix) + 1, Len(s)) = suffix

\* dict.get(k): None when the key is missing
DictGet(d, k) == IF k \in DOMAIN d THEN PyStr(d[k]) ELSE PyNone

\* dict.get(k, default)
DictGetDefault(d, k, default) == IF k \in DOMAIN d THEN d[k] ELSE default

\* d[k] = v
DictSet(d, k, v) ==
    [x \in DOMAIN d \cup {k} |-> IF x = k THEN v ELSE d[x]]

\* a pop that leaves the key in place
DictPopKeeping(d, k) == d

\* d.pop(k, None)
DictPop(d, k) == [x \in DOMAIN d \ {k} |-> d[x]]

\* x or y
PyOr(x, y) == IF Truthy(x) THEN x ELSE y

\* the elements of a sequence
Range(s) == {s[i] : i \in DOMAIN s}

\* the sequences over S of length at most n
SeqUpTo(S, n) == UNION {[1..k -> S] : k \in 0..n}

\* str.replace(ch, "")
RECURSIVE Remove(_, _)
Remove(s, ch) ==
    IF s = <<>> THEN <<>>
    ELSE IF Head(s) = ch THEN Remove(Tail(s), ch)
    ELSE <<Head(s)>> \o Remove(Tail(s), ch)

----------------------------------------------------------------------------
(* HELPERS: parse_int, parse_float *)
(* int() and float() are computed for texts over the digits and the       *)
(* characters " ", "+", "-", "_", ".", "$", ",", "x", "n", "a".           *)

DigitChars == <<"0", "1", "2", "3", "4", "5", "6", "7", "8", "9">>

IsDigit(ch) == \E i \in DOMAIN DigitChars : DigitChars[i] = ch

DigitVal(ch) == (CHOOSE i \in DOMAIN DigitChars : DigitChars[i] = ch) - 1

\* digits, with single underscores allowed between two digits
IsDigitRun(s) ==
    /\ s # <<>>
    /\ IsDigit(s[1])
    /\ IsDigit(s[Len(s)])
    /\ \A i \in DOMAIN s : IsDigit(s[i]) \/ s[i] = "_"
    /\ \A i \in 1..(Len(s) - 1) : ~(s[i] = "_" /\ s[i + 1] = "_")

\* the value of a run of digits read after the value acc
RECURSIVE DigitRunVal(_, _)
DigitRunVal(s, acc) ==
    IF s = <<>> THEN acc
    ELSE IF Head(s) = "_" THEN DigitRunVal(Tail(s), acc)
    ELSE DigitRunVal(Tail(s), 10 * acc + DigitVal(Head(s)))

\* the digits of a run
DigitsOf(s) == Remove(s, "_")

\* an optional sign and what follows it
SignOf(s) == IF s # <<>> /\ Head(s) = "-" THEN -1 ELSE 1

Unsigned(s) == IF s # <<>> /\ Head(s) \in {"+", "-"} THEN Tail(s) ELSE s

\* int(s) for a str s: its value, or None where int raises ValueError
IntOfStr(s) ==
    LET body == Unsigned(Strip(s)) IN
    IF IsDigitRun(body)
    THEN PyInt(SignOf(Strip(s)) * DigitRunVal(body, 0))
    ELSE PyNone

\* a parse_int that reads an unparsable text as 0
parse_int_defaulting(v) ==
    IF v.t # "str" THEN PyNone
    ELSE IF IntOfStr(v.v) = PyNone THEN PyInt(0)
    ELSE IntOfStr(v.v)

\* parse_int(v): int(None) raises TypeError, caught as well
parse_int(v) ==
    IF v.t # "str" THEN PyNone ELSE IntOfStr(v.v)

\* the position of the first ch in s, or 0
FirstIndex(s, ch) ==
    IF \E i \in DOMAIN s : s[i] = ch
    THEN CHOOSE i \in DOMAIN s :
           s[i] = ch /\ \A j \in 1..(i - 1) : s[j] # ch
    ELSE 0

\* m / 10^e with the trailing zeros of the fraction dropped
RECURSIVE Normal(_, _)
Normal(m, e) ==
    IF e > 0 /\ m % 10 = 0 THEN Normal(m \div 10, e - 1) ELSE PyFloat(m, e)

\* float(s) for a str s: its value, or None where float raises ValueError
FloatOfStr(s) ==
    LET body == Unsigned(Strip(s))
        dot == FirstIndex(body, ".")
        whole == IF dot = 0 THEN body ELSE SubSeq(body, 1, dot - 1)
        frac == IF dot = 0 THEN <<>> ELSE SubSeq(body, dot + 1, Len(body))
    IN IF Lower(body) = <<"n", "a", "n">> THEN PyNan
       ELSE IF /\ whole # <<>> \/ frac # <<>>
               /\ whole = <<>> \/ IsDigitRun(whole)
               /\ frac = <<>> \/ IsDigitRun(frac)
       THEN LET m == DigitRunVal(DigitsOf(whole) \o DigitsOf(frac), 0)
            IN Normal(SignOf(Strip(s)) * m, Len(DigitsOf(frac)))
       ELSE PyNone

\* parse_float(v)
parse_float(v) ==
    IF ~Truthy(v) THEN PyNone
    ELSE FloatOfStr(Strip(Remove(Remove(v.v, "$"), ",")))

----------------------------------------------------------------------------
(* HELPERS: read_sheet *)

\* read_sheet, applied to the "values" of the store's response
read_sheet(values) ==
    IF values = <<>> THEN <<>>
    ELSE
      LET headers == values[1]
          rows == Tail(values)
          \* a repeated header keeps the cell of its last column
          col(h) == CHOOSE i \in DOMAIN headers :
                      /\ headers[i] = h
                      /\ \A j \in DOMAIN headers : j > i => headers[j] # h
          item(row) == [h \in Range(headers) |->
                          IF col(h) <= Len(row) THEN row[col(h)] ELSE <<>>]
      IN [n \in DOMAIN rows |-> item(rows[n])]

----------------------------------------------------------------------------
(* DRIVE: load_photos, load_hero_image *)

JPG == <<".", "j", "p", "g">>

JPEG == <<".", "j", "p", "e", "g">>

PNG == <<".", "p", "n", "g">>

PhotoUrl(fid) == <<"https://lh3.googleusercontent.com/d/", fid, "=w1200">>

IsImageName(fname) ==
    LET name == Lower(fname) IN
    EndsWith(name, JPG) \/ EndsWith(name, JPEG) \/ EndsWith(name, PNG)

RECURSIVE PhotosOf(_)
PhotosOf(files) ==
    IF files = <<>> THEN <<>>
    ELSE IF ~IsImageName(Head(files).name) THEN PhotosOf(Tail(files))
    ELSE <<[id |-> Head(files).id, url |-> PhotoUrl(Head(files).id)]>>
         \o PhotosOf(Tail(files))

\* a load_photos without its test of folder_id
CallsDriveAlways(folder_id) == TRUE

\* whether load_photos(folder_id) calls the file provider at all
CallsDrive(folder_id) == Truthy(folder_id)

\* load_photos(folder_id) when the provider, if called, answers with `files`
load_photos(folder_id, files) ==
    IF ~CallsDrive(folder_id) THEN <<>> ELSE PhotosOf(files)

\* photos[0]["url"] if photos else None
FirstUrl(photos) ==
    IF photos # <<>> THEN PyStr(photos[1].url) ELSE PyNone

\* load_hero_image without its try/except
load_hero_image_uncaught(answer) ==
    [raised |-> ~answer.ok,
     value |-> IF answer.ok
               THEN FirstUrl(load_photos(PyStr(HERO_FOLDER_ID), answer.files))
               ELSE PyNone]

\* load_hero_image() when the provider answers `answer` (answer.ok is FALSE
\* when the listing raises): what it returns, and whether it raises
load_hero_image(answer) ==
    [raised |-> FALSE,
     value |-> IF answer.ok
               THEN FirstUrl(load_photos(PyStr(HERO_FOLDER_ID), answer.files))
               ELSE PyNone]

----------------------------------------------------------------------------
(* LOADERS: the list built by load_cars *)

HIDDEN == <<"h", "i", "d", "d", "e", "n">>

ACTIVE == <<"a", "c", "t", "i", "v", "e">>

\* the dict appended to cars for row r (the fields the handlers read and the
\* parsed ones)
CarOf(r) ==
    [id |-> Strip(PyOr(DictGet(r, "id"), PyStr(<<>>)).v),
     year |-> parse_int(DictGet(r, "year")),
     price_usd |-> parse_float(DictGet(r, "price_usd")),
     price_krw |-> parse_float(DictGet(r, "price_krw")),
     mileage_km |-> parse_int(DictGet(r, "mileage_km")),
     status |-> DictGetDefault(r, "status", ACTIVE),
     photos_folder_id |-> Strip(DictGetDefault(r, "photos_folder_id", <<>>))]

\* the loop over rows without its test of the status
SkipsBlankIdOnly(r) ==
    ~Truthy(PyStr(Strip(PyOr(DictGet(r, "id"), PyStr(<<>>)).v)))

\* the two `continue` tests of the loop over rows
SkipsRow(r) ==
    \/ ~Truthy(PyStr(Strip(PyOr(DictGet(r, "id"), PyStr(<<>>)).v)))
    \/ DictGet(r, "status") = PyStr(HIDDEN)

RECURSIVE BuildCars(_)
BuildCars(rows) ==
    IF rows = <<>> THEN <<>>
    ELSE IF SkipsRow(Head(rows)) THEN BuildCars(Tail(rows))
    ELSE <<CarOf(Head(rows))>> \o BuildCars(Tail(rows))

\* the orders random.shuffle can leave a list in
Shuffles(s) ==
    {[i \in DOMAIN s |-> s[perm[i]]] : perm \in Permutations(DOMAIN s)}

----------------------------------------------------------------------------
(* What the external store and the file provider can answer *)

A == <<"a">>

PaddedA == <<" ", "a", " ">>

B == <<"b">>

UpperA == <<"A">>

Blank == <<" ">>

Folder == <<"f">>

PaddedFolder == <<"f", " ">>

CarHeaders == <<"id", "status", "photos_folder_id">>

\* a row shorter than the headers whose id is padded, a blank status cell,
\* a hidden row and a row whose id is only whitespace
CarRows ==
    { <<PaddedA>>,
      <<B, <<>>, PaddedFolder>>,
      <<UpperA, HIDDEN, Folder>>,
      <<Blank, ACTIVE, Folder>> }

\* the "values" the store can return for the cars sheet: nothing, or a sheet
\* that has no status column and repeats an id, or the headers and some rows
CarSheets ==
    {<<>>, << <<"id", "photos_folder_id">>, <<A, Folder>>, <<A>> >>}
    \cup {<<CarHeaders>> \o rs : rs \in SeqUpTo(CarRows, MaxRows)}

\* texts of the cells year and mileage_km that int() reads, with its value
IntTexts ==
    { <<"2", "0", "2", "0">>, <<" ", "-", "5", " ">>, <<"1", "_", "0">> }

\* texts that int() rejects
BadIntTexts ==
    { <<>>, <<"x">>, <<"2", ".", "5">>, <<"2", " ", "0">>, <<"_", "2">>,
      <<"$", "2">> }

\* texts of the cells price_usd and price_krw that parse_float reads
FloatTexts ==
    { <<"$", "1", "2", ",", "3", "4", "5", ".", "0", "0">>,
      <<" ", "1", ".", "5", "0">>, <<"-", ".", "5">>, <<"2", ".">>,
      <<"n", "a", "n">> }

\* texts that parse_float rejects
BadFloatTexts ==
    { <<>>, <<"x">>, <<"$">>, <<".">>, <<"1", ".", "2", ".", "5">>,
      <<"1", " ", "2">>, <<"-">> }

\* the cars sheet with one row: its year and mileage, or its two prices; the
\* last cell may be missing from the row
PricedSheets ==
    {<< <<"id", "year", "mileage_km">>, <<A, y, m>> >> :
        y \in IntTexts \cup BadIntTexts, m \in IntTexts \cup BadIntTexts}
    \cup {<< <<"id", "price_usd", "price_krw">>, <<A, u, k>> >> :
        u \in FloatTexts \cup BadFloatTexts,
        k \in FloatTexts \cup BadFloatTexts}
    \cup {<< <<"id", "year", "mileage_km">>, <<A, y>> >> :
        y \in IntTexts \cup BadIntTexts}

\* the cars sheet with one row, in two versions
FewSheets == { << <<"id">>, <<A>> >>, << <<"id">>, <<B>> >> }

ProfileSheets ==
    { <<>>,
      << <<"name">> >>,
      << <<"name", "bio">>, <<A>> >>,
      << <<"name", "hero_image">>, <<B, Folder>>, <<A, Folder>> >> }

\* the profile sheet with one row
FewProfileSheets == { << <<"name">>, <<A>> >> }

\* the file lists the provider can return for a folder
Listings ==
    { << [id |-> "f3", name |-> <<"c", ".", "t", "x", "t">>] >>,
      << [id |-> "f2", name |-> <<"b", ".", "P", "N", "G">>],
         [id |-> "f3", name |-> <<"c", ".", "t", "x", "t">>],
         [id |-> "f4", name |-> <<"d", ".", "j", "p", "e", "g">>] >> }

\* what a call to the provider can end in: a file list, or an exception
DriveAnswers ==
    {[ok |-> TRUE, files |-> f] : f \in Listings}
    \cup {[ok |-> FALSE, files |-> <<>>]}

\* the car ids a client asks for
CarIds == {A, UpperA}

----------------------------------------------------------------------------
(* Requests *)

NoResp == [status |-> 0, body |-> PyNone]

\* a handler that returned `body`
Ok(body) == [status |-> 200, body |-> body]

\* raise HTTPException(status_code=404, detail="Car not found")
NotFound == [status |-> 404, body |-> PyStr(<<"Car not found">>)]

\* an exception that escapes the handler
ServerError == [status |-> 500, body |-> PyNone]

\* a thread of the pool with no request:
\*   pc     where the handler stands      kind   which handler runs
\*   cid    the car_id of the path        logged outcome of the append attempt
\*   fresh  while the loader reads the store: an entry no older than the TTL
\*          was stored when the loader started
\*   via    "hit" or "miss" when the loader has returned
\*   rows   the rows the loader read      cars   the list load_cars returned
\*   ext    outcome of the handler's last read: "ok", "read_failed" when
\*          read_sheet raised, "raised" when the listing of a folder raised
\* fresh, via, rows and cars belong to the running handler: they are gone
\* once it has returned
IdleReq ==
    [pc |-> "idle", kind |-> "none", cid |-> <<>>, logged |-> "none",
     fresh |-> FALSE, via |-> "none", rows |-> PyNone, cars |-> <<>>,
     ext |-> "none", resp |-> NoResp]

\* the handler of request r returns or raises: resp is the response
Respond(r, ext, resp) ==
    [IdleReq EXCEPT !.pc = "done", !.kind = r.kind, !.cid = r.cid,
                    !.logged = r.logged, !.ext = ext, !.resp = resp]

\* the history of the reads is kept from the start, or not at all
NotKept == [kept |-> FALSE]

\* no read sent yet: sent[p] is when the read p waits for was sent, readAt[key]
\* when the read whose data are stored under key was sent
NoHistory == [kept |-> TRUE, sent |-> [p \in Procs |-> 0], readAt |-> <<>>]

\* p sends a read to the store at time t
Sent(h, p, t) == IF h.kept THEN [h EXCEPT !.sent[p] = t] ELSE h

\* p stores under key the data of the read it had sent
Stored(h, p, key) ==
    IF h.kept
    THEN [h EXCEPT !.readAt = DictSet(@, key, h.sent[p]), !.sent[p] = 0]
    ELSE h

\* the read p had sent ends without data stored
Dropped(h, p) == IF h.kept THEN [h EXCEPT !.sent[p] = 0] ELSE h

\* the last direct call of get_cached and its result
NoObs == [key |-> "", ttl |-> 0, result |-> PyNone]

Init ==
    /\ now = 0
    /\ cache = EmptyCache
    /\ hist = NotKept
    /\ req = [p \in Procs |-> IdleReq]
    /\ obs = NoObs

\* the same start, with the history of the reads kept
InitStale ==
    /\ now = 0
    /\ cache = EmptyCache
    /\ hist = NoHistory
    /\ req = [p \in Procs |-> IdleReq]
    /\ obs = NoObs

\* time.time() moves on to a later reading
TickTo(readings) ==
    /\ \E t \in readings :
         /\ t > now
         /\ now' = t
    /\ obs' = NoObs
    /\ UNCHANGED <<cache, hist, req>>

Tick == TickTo(ClockReadings)

TickCars == TickTo(CarsClock)

TickProfile == TickTo(ProfileClock)

\* an entry under key that get_cached(key, ttl) has to serve at time t
HasFresh(c, key, ttl, t) == key \in DOMAIN c /\ t - c[key].ts <= ttl

----------------------------------------------------------------------------
(* USERS: append_user_event *)

\* append_user_event without its try/except
append_user_event_uncaught(ok) ==
    [raised |-> ~ok, logged |-> IF ok THEN "ok" ELSE "failed"]

\* append_user_event(request, car_id) when the append to the users sheet
\* succeeds (ok) or raises: what becomes of the attempt, and whether the
\* function raises
append_user_event(ok) ==
    [raised |-> FALSE, logged |-> IF ok THEN "ok" ELSE "failed"]

\* a handler that goes to load_cars without the append
LoadWithoutLog(r, ok) == [r EXCEPT !.pc = "load_cars"]

\* the first statement of api_cars and api_car_detail, for the request r
LogThenLoad(r, ok) ==
    LET ev == append_user_event(ok)
        logged == [r EXCEPT !.logged = ev.logged]
    IN IF ev.raised THEN Respond(logged, "none", ServerError)
       ELSE [logged EXCEPT !.pc = "load_cars"]

----------------------------------------------------------------------------
(* API: GET /api/cars, GET /api/cars/{car_id}, GET /api/profile *)

\* api_cars up to its call of load_cars
ApiCars(p) ==
    /\ req[p].pc = "idle"
    /\ \E ok \in BOOLEAN :
         req' = [req EXCEPT ![p] =
                   LogThenLoad([IdleReq EXCEPT !.kind = "cars"], ok)]
    /\ UNCHANGED <<now, cache, hist, obs>>

\* api_car_detail up to its call of load_cars
ApiCarDetail(p) ==
    /\ req[p].pc = "idle"
    /\ \E car_id \in CarIds, ok \in BOOLEAN :
         req' = [req EXCEPT ![p] =
                   LogThenLoad([IdleReq EXCEPT !.kind = "detail",
                                               !.cid = car_id], ok)]
    /\ UNCHANGED <<now, cache, hist, obs>>

\* api_profile up to its call of load_profile
ApiProfile(p) ==
    /\ req[p].pc = "idle"
    /\ req' = [req EXCEPT ![p] =
                 [IdleReq EXCEPT !.pc = "load_profile", !.kind = "profile"]]
    /\ UNCHANGED <<now, cache, hist, obs>>

\* load_cars shuffling the cached list again on every hit
LoadCarsGetReshuffling(p) ==
    /\ req[p].pc = "load_cars"
    /\ LET cached == get_cached(cache, "cars", CACHE_TTL_CARS, now) IN
       IF Truthy(cached)
       THEN \E cars \in Shuffles(cached.v) :
              req' = [req EXCEPT ![p] =
                        [req[p] EXCEPT !.pc = "loaded", !.via = "hit",
                                       !.cars = cars]]
       ELSE req' = [req EXCEPT ![p] =
                      [req[p] EXCEPT
                         !.pc = "read_cars",
                         !.fresh = HasFresh(cache, "cars", CACHE_TTL_CARS, now)]]
    /\ hist' = IF req'[p].pc = "read_cars" THEN Sent(hist, p, now) ELSE hist
    /\ UNCHANGED <<now, cache, obs>>

\* load_cars: get_cached("cars", CACHE_TTL_CARS) and `if cached: return cached`
LoadCarsGet(p) ==
    /\ req[p].pc = "load_cars"
    /\ LET cached == get_cached(cache, "cars", CACHE_TTL_CARS, now) IN
       req' = [req EXCEPT ![p] =
                 IF Truthy(cached)
                 THEN [req[p] EXCEPT !.pc = "loaded", !.via = "hit",
                                     !.cars = cached.v]
                 ELSE [req[p] EXCEPT
                         !.pc = "read_cars",
                         !.fresh = HasFresh(cache, "cars", CACHE_TTL_CARS, now)]]
    /\ hist' = IF req'[p].pc = "read_cars" THEN Sent(hist, p, now) ELSE hist
    /\ UNCHANGED <<now, cache, obs>>

\* load_cars after a miss: read_sheet("cars") answers with one of `sheets`,
\* the list is built, shuffled, stored and returned
LoadCarsReadFrom(p, sheets) ==
    /\ req[p].pc = "read_cars"
    /\ \E values \in sheets :
         LET rows == read_sheet(values) IN
         \E cars \in Shuffles(BuildCars(rows)) :
           /\ cache' = set_cache(cache, "cars", PyList(cars), now)
           /\ hist' = Stored(hist, p, "cars")
           /\ req' = [req EXCEPT ![p] =
                        [req[p] EXCEPT !.pc = "loaded", !.via = "miss",
                                       !.fresh = FALSE, !.ext = "ok",
                                       !.rows = PyList(rows), !.cars = cars]]
    /\ UNCHANGED <<now, obs>>

LoadCarsRead(p) == LoadCarsReadFrom(p, CarSheets)

\* load_cars after a miss, on a sheet with the numeric columns
LoadCarsReadPriced(p) == LoadCarsReadFrom(p, PricedSheets)

\* load_cars after a miss, on a sheet with one row
LoadCarsReadFew(p) == LoadCarsReadFrom(p, FewSheets)

\* load_cars falling back to the stored list when the read raises
LoadCarsFailServingStale(p) ==
    /\ req[p].pc = "read_cars"
    /\ req' = [req EXCEPT ![p] =
                 IF "cars" \in DOMAIN cache
                 THEN [req[p] EXCEPT !.pc = "loaded", !.via = "hit",
                                     !.fresh = FALSE, !.ext = "read_failed",
                                     !.cars = cache["cars"].data.v]
                 ELSE Respond(req[p], "read_failed", ServerError)]
    /\ hist' = Dropped(hist, p)
    /\ UNCHANGED <<now, cache, obs>>

\* load_cars after a miss: read_sheet("cars") raises
LoadCarsFail(p) ==
    /\ req[p].pc = "read_cars"
    /\ req' = [req EXCEPT ![p] = Respond(req[p], "read_failed", ServerError)]
    /\ hist' = Dropped(hist, p)
    /\ UNCHANGED <<now, cache, obs>>

\* the body of the loop of api_cars for car c with the photos found
ListedCar(c, photos) ==
    DictPop(DictSet(c, "cover_image", FirstUrl(photos)), "photos_folder_id")

\* whether load_photos(folder_id) raises when the provider answers `answer`
PhotosRaise(folder_id, answer) == CallsDrive(folder_id) /\ ~answer.ok

\* the loop of api_cars: answers[i] is the provider's answer for cars[i]
RECURSIVE EnrichRaises(_, _)
EnrichRaises(cars, answers) ==
    /\ cars # <<>>
    /\ \/ PhotosRaise(DictGet(Head(cars), "photos_folder_id"), Head(answers))
       \/ EnrichRaises(Tail(cars), Tail(answers))

RECURSIVE Enriched(_, _)
Enriched(cars, answers) ==
    IF cars = <<>> THEN <<>>
    ELSE <<ListedCar(Head(cars),
                     load_photos(DictGet(Head(cars), "photos_folder_id"),
                                 Head(answers).files))>>
         \o Enriched(Tail(cars), Tail(answers))

\* the outcome of the handler's calls to the provider
ExtOf(raised, called) ==
    IF raised THEN "raised" ELSE IF called THEN "ok" ELSE "none"

\* the loop of api_cars with a listing that raises taken as no photos
ApiCarsReturnSwallowing(p) ==
    /\ req[p].pc = "loaded"
    /\ req[p].kind = "cars"
    /\ \E answers \in [DOMAIN req[p].cars -> DriveAnswers] :
         LET cars == req[p].cars
             raised == EnrichRaises(cars, answers)
             called == \E i \in DOMAIN cars :
                         CallsDrive(DictGet(cars[i], "photos_folder_id"))
         IN req' = [req EXCEPT ![p] =
                      Respond(req[p], ExtOf(raised, called),
                              Ok(PyList(Enriched(cars, answers))))]
    /\ UNCHANGED <<now, cache, hist, obs>>

\* the loop of api_cars working on the cars themselves, not on copies: the
\* list of the handler is the list object stored in the cache
ApiCarsReturnInPlace(p) ==
    /\ req[p].pc = "loaded"
    /\ req[p].kind = "cars"
    /\ \E answers \in [DOMAIN req[p].cars -> DriveAnswers] :
         LET cars == req[p].cars
             raised == EnrichRaises(cars, answers)
             called == \E i \in DOMAIN cars :
                         CallsDrive(DictGet(cars[i], "photos_folder_id"))
             stored == /\ "cars" \in DOMAIN cache
                       /\ cache["cars"].data = PyList(cars)
         IN /\ req' = [req EXCEPT ![p] =
                         Respond(req[p], ExtOf(raised, called),
                                 IF raised THEN ServerError
                                 ELSE Ok(PyList(Enriched(cars, answers))))]
            /\ cache' = IF stored /\ ~raised
                        THEN [cache EXCEPT !["cars"].data =
                                PyList(Enriched(cars, answers))]
                        ELSE cache
    /\ UNCHANGED <<now, hist, obs>>

\* api_cars after load_cars: the loop over cars and the return
ApiCarsReturn(p) ==
    /\ req[p].pc = "loaded"
    /\ req[p].kind = "cars"
    /\ \E answers \in [DOMAIN req[p].cars -> DriveAnswers] :
         LET cars == req[p].cars
             raised == EnrichRaises(cars, answers)
             called == \E i \in DOMAIN cars :
                         CallsDrive(DictGet(cars[i], "photos_folder_id"))
         IN req' = [req EXCEPT ![p] =
                      Respond(req[p], ExtOf(raised, called),
                              IF raised THEN ServerError
                              ELSE Ok(PyList(Enriched(cars, answers))))]
    /\ UNCHANGED <<now, cache, hist, obs>>

\* a search that ignores the case of the id
RECURSIVE FirstMatchAnyCase(_, _)
FirstMatchAnyCase(cars, car_id) ==
    IF cars = <<>> THEN PyNone
    ELSE IF Lower(Head(cars).id) = Lower(car_id) THEN PyDict(Head(cars))
    ELSE FirstMatchAnyCase(Tail(cars), car_id)

\* next((c for c in cars if c["id"] == car_id), None)
RECURSIVE FirstMatch(_, _)
FirstMatch(cars, car_id) ==
    IF cars = <<>> THEN PyNone
    ELSE IF Head(cars).id = car_id THEN PyDict(Head(cars))
    ELSE FirstMatch(Tail(cars), car_id)

\* the dict api_car_detail returns for the car `base` with the photos found
DetailedCar(base, photos) ==
    LET urls == [i \in DOMAIN photos |-> photos[i].url]
        withPhotos == DictSet(base, "photos", urls)
        withCover == DictSet(withPhotos, "cover_image",
                             IF urls # <<>> THEN PyStr(urls[1]) ELSE PyNone)
    IN DictPop(withCover, "photos_folder_id")

\* api_car_detail after load_cars
ApiCarDetailReturn(p) ==
    /\ req[p].pc = "loaded"
    /\ req[p].kind = "detail"
    /\ LET base == FirstMatch(req[p].cars, req[p].cid) IN
       IF ~Truthy(base)
       THEN req' = [req EXCEPT ![p] = Respond(req[p], "none", NotFound)]
       ELSE \E answer \in DriveAnswers :
              LET folder == DictGet(base.v, "photos_folder_id")
                  raised == PhotosRaise(folder, answer)
              IN req' = [req EXCEPT ![p] =
                           Respond(req[p], ExtOf(raised, CallsDrive(folder)),
                                   IF raised THEN ServerError
                                   ELSE Ok(PyDict(DetailedCar(base.v,
                                          load_photos(folder, answer.files)))))]
    /\ UNCHANGED <<now, cache, hist, obs>>

\* load_profile taking a stored profile without hero image for a miss
LoadProfileGetRetryingHero(p) ==
    /\ req[p].pc = "load_profile"
    /\ LET cached == get_cached(cache, "profile", CACHE_TTL_META, now) IN
       req' = [req EXCEPT ![p] =
                 IF Truthy(cached) /\ cached.v["hero_image"] # PyNone
                 THEN Respond(req[p], "none", Ok(cached))
                 ELSE [req[p] EXCEPT
                         !.pc = "read_profile",
                         !.fresh = HasFresh(cache, "profile", CACHE_TTL_META, now)]]
    /\ hist' = IF req'[p].pc = "read_profile" THEN Sent(hist, p, now) ELSE hist
    /\ UNCHANGED <<now, cache, obs>>

\* load_profile: get_cached("profile", CACHE_TTL_META) and `if cached: return cached`
LoadProfileGet(p) ==
    /\ req[p].pc = "load_profile"
    /\ LET cached == get_cached(cache, "profile", CACHE_TTL_META, now) IN
       req' = [req EXCEPT ![p] =
                 IF Truthy(cached)
                 THEN Respond(req[p], "none", Ok(cached))
                 ELSE [req[p] EXCEPT
                         !.pc = "read_profile",
                         !.fresh = HasFresh(cache, "profile", CACHE_TTL_META, now)]]
    /\ hist' = IF req'[p].pc = "read_profile" THEN Sent(hist, p, now) ELSE hist
    /\ UNCHANGED <<now, cache, obs>>

\* load_profile after a miss: read_sheet("profile") answers with one of
\* `sheets`
LoadProfileReadFrom(p, sheets) ==
    /\ req[p].pc = "read_profile"
    /\ \E values \in sheets :
         req' = [req EXCEPT ![p] =
                   [req[p] EXCEPT !.pc = "hero", !.fresh = FALSE, !.ext = "ok",
                                  !.rows = PyList(read_sheet(values))]]
    /\ UNCHANGED <<now, cache, hist, obs>>

LoadProfileRead(p) == LoadProfileReadFrom(p, ProfileSheets)

\* load_profile after a miss, on a sheet with one row
LoadProfileReadFew(p) == LoadProfileReadFrom(p, FewProfileSheets)

\* load_profile after a miss: read_sheet("profile") raises
LoadProfileFail(p) ==
    /\ req[p].pc = "read_profile"
    /\ req' = [req EXCEPT ![p] = Respond(req[p], "read_failed", ServerError)]
    /\ hist' = Dropped(hist, p)
    /\ UNCHANGED <<now, cache, obs>>

\* profile = rows[0] if rows else {}; profile["hero_image"] = hero
ProfileOf(rows, hero) ==
    DictSet(IF rows # <<>> THEN rows[1] ELSE <<>>, "hero_image", hero)

\* load_profile after the rows are read: load_hero_image(), set_cache, return
LoadProfileHero(p) ==
    /\ req[p].pc = "hero"
    /\ \E answer \in DriveAnswers :
         LET hero == load_hero_image(answer)
             ext == IF answer.ok THEN "ok" ELSE "raised"
             profile == ProfileOf(req[p].rows.v, hero.value)
         IN IF hero.raised
            THEN /\ req' = [req EXCEPT ![p] = Respond(req[p], ext, ServerError)]
                 /\ cache' = cache
                 /\ hist' = Dropped(hist, p)
            ELSE /\ cache' = set_cache(cache, "profile", PyDict(profile), now)
                 /\ hist' = Stored(hist, p, "profile")
                 /\ req' = [req EXCEPT ![p] =
                              Respond(req[p], ext, Ok(PyDict(profile)))]
    /\ UNCHANGED <<now, obs>>

\* the response is sent and the thread is free again
Finish(p) ==
    /\ req[p].pc = "done"
    /\ req' = [req EXCEPT ![p] = IdleReq]
    /\ UNCHANGED <<now, cache, hist, obs>>

----------------------------------------------------------------------------
(* The cache functions called directly *)

CacheKeys == {"cars", "k"}

CacheValues == {PyNone, PyList(<<>>), PyList(<<1>>)}

CacheTtls == {0, CACHE_TTL_CARS, CACHE_TTL_META}

\* set_cache(key, data)
SetCache ==
    /\ \E key \in CacheKeys, data \in CacheValues :
         cache' = set_cache(cache, key, data, now)
    /\ obs' = NoObs
    /\ UNCHANGED <<now, hist, req>>

\* a get_cached that deletes the entry it finds expired
GetCachedPurging ==
    /\ \E key \in CacheKeys, ttl \in CacheTtls :
         /\ obs' = [key |-> key, ttl |-> ttl,
                    result |-> get_cached(cache, key, ttl, now)]
         /\ cache' = IF key \in DOMAIN cache /\ now - cache[key].ts > ttl
                      THEN [k \in DOMAIN cache \ {key} |-> cache[k]]
                      ELSE cache
    /\ UNCHANGED <<now, hist, req>>

\* get_cached(key, ttl)
GetCached ==
    /\ \E key \in CacheKeys, ttl \in CacheTtls :
         obs' = [key |-> key, ttl |-> ttl,
                 result |-> get_cached(cache, key, ttl, now)]
    /\ UNCHANGED <<now, cache, hist, req>>

----------------------------------------------------------------------------
(* Specifications *)

\* every route, one request at a time
Next ==
    \/ Tick
    \/ \E p \in Solo :
         \/ ApiCars(p)
         \/ ApiCarDetail(p)
         \/ ApiProfile(p)
         \/ LoadCarsGet(p)
         \/ LoadCarsRead(p)
         \/ LoadCarsFail(p)
         \/ ApiCarsReturn(p)
         \/ ApiCarDetailReturn(p)
         \/ LoadProfileGet(p)
         \/ LoadProfileRead(p)
         \/ LoadProfileFail(p)
         \/ LoadProfileHero(p)
         \/ Finish(p)

Spec == Init /\ [][Next]_vars

\* the routes of the cars, requests served concurrently
NextCars ==
    \/ TickCars
    \/ \E p \in Procs :
         \/ ApiCars(p)
         \/ ApiCarDetail(p)
         \/ LoadCarsGet(p)
         \/ LoadCarsRead(p)
         \/ LoadCarsFail(p)
         \/ ApiCarsReturn(p)
         \/ ApiCarDetailReturn(p)
         \/ Finish(p)

SpecCars == Init /\ [][NextCars]_vars

\* the route of the profile, requests served concurrently
NextProfile ==
    \/ TickProfile
    \/ \E p \in Procs :
         \/ ApiProfile(p)
         \/ LoadProfileGet(p)
         \/ LoadProfileRead(p)
         \/ LoadProfileFail(p)
         \/ LoadProfileHero(p)
         \/ Finish(p)

SpecProfile == Init /\ [][NextProfile]_vars

\* GET /api/cars on sheets with the numeric columns, one request at a time
NextPriced ==
    \/ TickCars
    \/ \E p \in Solo :
         \/ ApiCars(p)
         \/ LoadCarsGet(p)
         \/ LoadCarsReadPriced(p)
         \/ LoadCarsFail(p)
         \/ ApiCarsReturn(p)
         \/ Finish(p)

SpecPriced == Init /\ [][NextPriced]_vars

\* the two loaders behind GET /api/cars and GET /api/profile, requests served
\* concurrently, with the history of the reads kept
NextStale ==
    \/ Tick
    \/ \E p \in Procs :
         \/ ApiCars(p)
         \/ ApiProfile(p)
         \/ LoadCarsGet(p)
         \/ LoadCarsReadFew(p)
         \/ LoadCarsFail(p)
         \/ ApiCarsReturn(p)
         \/ LoadProfileGet(p)
         \/ LoadProfileReadFew(p)
         \/ LoadProfileFail(p)
         \/ LoadProfileHero(p)
         \/ Finish(p)

SpecStale == InitStale /\ [][NextStale]_vars

\* get_cached and set_cache called directly as the clock moves
NextCache ==
    \/ Tick
    \/ SetCache
    \/ GetCached

SpecCache == Init /\ [][NextCache]_vars

----------------------------------------------------------------------------
(* Properties *)

\* the ids of a list of cars, in order
Ids(cars) == [i \in DOMAIN cars |-> cars[i].id]

\* load_cars returns to the handler of p in this step
LoaderReturns(p) ==
    /\ req[p].pc \in {"load_cars", "read_cars"}
    /\ req'[p].pc = "loaded"

\* C1: right after get_cached(k, t), with the entry under k as the last
\* set_cache(k, v) left it: the result is v when the time elapsed since the set
\* is at most t, absent (None) when it is greater, and absent for a key that
\* was never set.
C1_GetWithinTtl ==
    obs.key # "" =>
      IF obs.key \in DOMAIN cache
      THEN /\ now - cache[obs.key].ts <= obs.ttl
                => obs.result = cache[obs.key].data
           /\ now - cache[obs.key].ts > obs.ttl => obs.result = PyNone
      ELSE obs.result = PyNone

\* C1 witness: a get at the very moment the entry is as old as the ttl
\* returns the stored value
C1_Witness ==
    /\ obs.key \in DOMAIN cache
    /\ obs.ttl > 0
    /\ now - cache[obs.key].ts = obs.ttl
    /\ cache[obs.key].data = PyList(<<1>>)
    /\ obs.result = PyList(<<1>>)

\* C2 as stated (original): a load_cars() call that returns while a list
\* stored no more than CACHE_TTL_CARS seconds ago is in the cache completes
\* within one TTL window of the call that stored that list, so it returns the
\* same ids in the same order, whatever the interleaving.  (Stated for a
\* stored list that is not empty.)
C2_SameOrderWithinWindow ==
    [][\A p \in Procs :
         (/\ LoaderReturns(p)
          /\ HasFresh(cache, "cars", CACHE_TTL_CARS, now)
          /\ cache["cars"].data.v # <<>>)
         => Ids(req'[p].cars) = Ids(cache["cars"].data.v)]_vars

\* C2 (amended): every load_cars() call returns the list of the entry it is
\* served from, in the stored order: a hit returns the stored list as it is
\* and stores nothing, a miss returns the list it has just stored.  So all
\* calls served from one entry return the same ids in the same order.
C2_SameOrderPerEntry ==
    [][\A p \in Procs :
         LoaderReturns(p)
         => /\ "cars" \in DOMAIN cache'
            /\ cache'["cars"].data = PyList(req'[p].cars)
            /\ req[p].pc = "load_cars" => cache' = cache]_vars

\* C2 witness: a hit has returned a list of two cars with different ids
C2_Witness ==
    \E p \in Procs :
      /\ req[p].pc = "loaded"
      /\ req[p].via = "hit"
      /\ Len(req[p].cars) = 2
      /\ req[p].cars[1].id # req[p].cars[2].id

\* C3 as stated: once a list is stored, a load_cars() call that starts within
\* the next CACHE_TTL_CARS seconds does not read the cars sheet again,
\* whatever the list (an empty one included).
C3_NoReadWithinWindow ==
    \A p \in Procs : req[p].pc = "read_cars" => ~req[p].fresh

\* C4: no list stored under "cars" and no list returned by load_cars() holds
\* a car with an empty or untrimmed id or with status "hidden", and every car
\* of a list just built comes from a row read whose trimmed id is the car's id
\* and whose status is not "hidden".
C4_NoHiddenNoBlankId ==
    LET Good(c) == c.id # <<>> /\ c.id = Strip(c.id) /\ c.status # HIDDEN
        From(c, r) ==
          /\ "id" \in DOMAIN r
          /\ Strip(r["id"]) = c.id
          /\ "status" \in DOMAIN r => r["status"] = c.status
    IN /\ "cars" \in DOMAIN cache
            => \A c \in Range(cache["cars"].data.v) : Good(c)
       /\ \A p \in Procs :
            req[p].pc = "loaded"
            => /\ \A c \in Range(req[p].cars) : Good(c)
               /\ req[p].via = "miss"
                    => \A c \in Range(req[p].cars) :
                         \E r \in Range(req[p].rows.v) : From(c, r)

\* C4 witness: of two rows read, one hidden, only the other is in the list
C4_Witness ==
    \E p \in Procs :
      /\ req[p].pc = "loaded"
      /\ req[p].via = "miss"
      /\ Len(req[p].rows.v) = 2
      /\ Len(req[p].cars) = 1
      /\ \E r \in Range(req[p].rows.v) :
           "status" \in DOMAIN r /\ r["status"] = HIDDEN

\* C5 as stated: a row read with a non-blank id and an empty status is in the
\* list load_cars() builds, with status "active".
C5_EmptyStatusIsActive ==
    \A p \in Procs :
      (req[p].pc = "loaded" /\ req[p].via = "miss")
      => \A r \in Range(req[p].rows.v) :
           (/\ "id" \in DOMAIN r
            /\ Strip(r["id"]) # <<>>
            /\ "status" \in DOMAIN r
            /\ r["status"] = <<>>)
           => \E c \in Range(req[p].cars) :
                c.id = Strip(r["id"]) /\ c.status = ACTIVE

\* C6: GET /api/cars/{car_id} answers 404 exactly when no car of the list
\* load_cars() returned has the id car_id; otherwise, when the listing of the
\* photos does not raise, it answers with a copy of the first such car, without
\* photos_folder_id, with photos the urls of the images of its folder in order
\* and cover_image photos[0], or None when photos is empty.
C6_DetailOfFirstMatch ==
    [][\A p \in Procs :
         (/\ req[p].pc = "loaded"
          /\ req[p].kind = "detail"
          /\ req'[p].pc = "done")
         => LET cars == req[p].cars
                hits == {i \in DOMAIN cars : cars[i].id = req[p].cid}
                r == req'[p].resp
            IN /\ r.status = 404 <=> hits = {}
               /\ hits # {}
                    => LET c == cars[CHOOSE i \in hits : \A j \in hits : i <= j]
                           kept == DOMAIN c \ {"photos_folder_id"}
                       IN \/ r = ServerError /\ req'[p].ext = "raised"
                          \/ /\ r.status = 200
                             /\ r.body.t = "dict"
                             /\ DOMAIN r.body.v = kept \cup {"photos", "cover_image"}
                             /\ \A k \in kept : r.body.v[k] = c[k]
                             /\ \E f \in Listings :
                                  LET photos == load_photos(
                                                  PyStr(c.photos_folder_id), f)
                                  IN r.body.v["photos"]
                                       = [i \in DOMAIN photos |-> photos[i].url]
                             /\ r.body.v["cover_image"]
                                  = IF r.body.v["photos"] # <<>>
                                    THEN PyStr(r.body.v["photos"][1])
                                    ELSE PyNone]_vars

\* C6 witness: a detail answered with the photos of the car's folder
C6_Witness ==
    \E p \in Procs :
      /\ req[p].pc = "done"
      /\ req[p].kind = "detail"
      /\ req[p].resp.status = 200
      /\ req[p].resp.body.v["photos"] # <<>>

\* C7: the append of the usage event, whether it succeeds or raises, leaves
\* the request where it would be anyway: the handler goes on to load_cars with
\* no response decided and the cache as it was, and an error response always
\* comes from a failed read of the store or of the provider.
C7_LoggingIsIsolated ==
    /\ [](\A p \in Procs :
            req[p].resp = ServerError => req[p].ext \in {"read_failed", "raised"})
    /\ [][\A p \in Procs :
            (req[p].pc = "idle" /\ req'[p].kind \in {"cars", "detail"})
            => /\ req'[p].logged \in {"ok", "failed"}
               /\ req'[p] = [IdleReq EXCEPT !.pc = "load_cars",
                                            !.kind = req'[p].kind,
                                            !.cid = req'[p].cid,
                                            !.logged = req'[p].logged]
               /\ cache' = cache]_vars

\* C7 witness: the append failed and GET /api/cars answered 200 with cars
C7_Witness ==
    \E p \in Procs :
      /\ req[p].pc = "done"
      /\ req[p].kind = "cars"
      /\ req[p].logged = "failed"
      /\ req[p].resp.status = 200
      /\ req[p].resp.body.v # <<>>

\* C8: no car object in a response of GET /api/cars or GET /api/cars/{car_id}
\* has the field photos_folder_id.
C8_NoFolderIdInResponses ==
    \A p \in Procs :
      req[p].resp.status = 200
      => /\ req[p].kind = "cars"
              => \A c \in Range(req[p].resp.body.v) :
                   "photos_folder_id" \notin DOMAIN c
         /\ req[p].kind = "detail"
              => "photos_folder_id" \notin DOMAIN req[p].resp.body.v

\* C8 witness: a list of two cars answered, each with a cover image found in
\* its folder
C8_Witness ==
    \E p \in Procs :
      /\ req[p].kind = "cars"
      /\ req[p].resp.status = 200
      /\ Len(req[p].resp.body.v) = 2
      /\ \A c \in Range(req[p].resp.body.v) : c["cover_image"] # PyNone

\* C9: when the profile rows are read and the listing of the hero folder
\* raises, load_profile() returns the first row (or an empty profile) with
\* hero_image None, and stores it, instead of raising.
C9_HeroFailureDegrades ==
    [][\A p \in Procs :
         (/\ req[p].pc = "hero"
          /\ req'[p].pc = "done"
          /\ req'[p].ext = "raised")
         => LET rows == req[p].rows.v
                base == IF rows # <<>> THEN rows[1] ELSE <<>>
                r == req'[p].resp
            IN /\ r.status = 200
               /\ r.body.t = "dict"
               /\ DOMAIN r.body.v = DOMAIN base \cup {"hero_image"}
               /\ r.body.v["hero_image"] = PyNone
               /\ \A k \in DOMAIN base \ {"hero_image"} : r.body.v[k] = base[k]
               /\ "profile" \in DOMAIN cache'
               /\ cache'["profile"] = [data |-> r.body, ts |-> now]]_vars

\* C9 witness: the listing raised and the profile row was returned without a
\* hero image
C9_Witness ==
    \E p \in Procs :
      /\ req[p].pc = "done"
      /\ req[p].kind = "profile"
      /\ req[p].ext = "raised"
      /\ req[p].resp.status = 200
      /\ "name" \in DOMAIN req[p].resp.body.v
      /\ req[p].resp.body.v["hero_image"] = PyNone

\* C10: when load_cars() or load_profile() has missed and the read of the
\* store raises, the call raises to its caller, the cache is left as it was,
\* and no stored value, expired or not, is returned.
C10_FailedLoadPropagates ==
    [][\A p \in Procs :
         (/\ req[p].pc \in {"read_cars", "read_profile"}
          /\ req'[p].ext = "read_failed")
         => /\ req'[p].pc = "done"
            /\ req'[p].resp = ServerError
            /\ cache' = cache]_vars

\* C10 witness: the read raised while an expired list of cars was stored, and
\* the request failed
C10_Witness ==
    \E p \in Procs :
      /\ req[p].pc = "done"
      /\ req[p].kind = "cars"
      /\ req[p].ext = "read_failed"
      /\ req[p].resp = ServerError
      /\ "cars" \in DOMAIN cache
      /\ cache["cars"].data.v # <<>>
      /\ now - cache["cars"].ts > CACHE_TTL_CARS

\* C11: a row read with a non-blank id and a status other than "hidden" is in
\* the list load_cars() builds whatever the texts of its year, mileage_km,
\* price_usd and price_krw: a text that is not a number (empty, letters, two
\* points, a space or a currency sign inside an integer, a missing cell)
\* leaves that field None, a text that is one gives its value, and the call
\* returns.
C11_ParseFailureDegradesField ==
    LET Expected(text) ==
          CASE text = <<"2", "0", "2", "0">> -> PyInt(2020)
            [] text = <<" ", "-", "5", " ">> -> PyInt(-5)
            [] text = <<"1", "_", "0">> -> PyInt(10)
            [] text = <<"$", "1", "2", ",", "3", "4", "5", ".", "0", "0">>
                 -> PyFloat(12345, 0)
            [] text = <<" ", "1", ".", "5", "0">> -> PyFloat(15, 1)
            [] text = <<"-", ".", "5">> -> PyFloat(-5, 1)
            [] text = <<"2", ".">> -> PyFloat(2, 0)
            [] text = <<"n", "a", "n">> -> PyNan
            [] OTHER -> PyNone
        Numeric == {"year", "mileage_km", "price_usd", "price_krw"}
    IN \A p \in Solo :
         (req[p].pc = "loaded" /\ req[p].via = "miss")
         => \A i \in DOMAIN req[p].rows.v :
              LET r == req[p].rows.v[i] IN
              (/\ Strip(r["id"]) # <<>>
               /\ "status" \in DOMAIN r => r["status"] # HIDDEN)
              => \E c \in Range(req[p].cars) :
                   /\ c.id = Strip(r["id"])
                   /\ \A k \in Numeric :
                        /\ k \notin DOMAIN r => c[k] = PyNone
                        /\ k \in DOMAIN r => c[k] = Expected(r[k])

\* C11 witness: a row whose year is not a number and whose mileage is one is
\* in the list built, without a year and with its mileage
C11_Witness ==
    \E p \in Solo :
      /\ req[p].pc = "loaded"
      /\ req[p].via = "miss"
      /\ Len(req[p].rows.v) = 1
      /\ "year" \in DOMAIN req[p].rows.v[1]
      /\ req[p].rows.v[1]["year"] = <<"2", ".", "5">>
      /\ Len(req[p].cars) = 1
      /\ req[p].cars[1].year = PyNone
      /\ req[p].cars[1].mileage_km = PyInt(2020)

\* C12: load_photos("") and load_photos(None) return an empty sequence without
\* calling the provider, whatever the provider would answer; so GET /api/cars
\* on cars that all have an empty photos_folder_id calls the provider for none
\* of them and cannot fail there, every car with an empty photos_folder_id is
\* listed with cover_image None, and the detail of such a car has no photos
\* and cover_image None.
C12_NoFolderNoProviderCall ==
    [][/\ \A folder_id \in {PyStr(<<>>), PyNone} :
            /\ ~CallsDrive(folder_id)
            /\ \A answer \in DriveAnswers :
                 /\ load_photos(folder_id, answer.files) = <<>>
                 /\ ~PhotosRaise(folder_id, answer)
       /\ \A p \in Procs :
            (req[p].pc = "loaded" /\ req'[p].pc = "done")
            => LET cars == req[p].cars
                   NoFolder(c) == c.photos_folder_id = <<>>
                   r == req'[p].resp
               IN /\ req[p].kind = "cars"
                       => /\ (\A i \in DOMAIN cars : NoFolder(cars[i]))
                               => req'[p].ext = "none" /\ r.status = 200
                          /\ r.status = 200
                               => \A i \in DOMAIN cars :
                                    NoFolder(cars[i])
                                    => r.body.v[i]["cover_image"] = PyNone
                  /\ (req[p].kind = "detail" /\ r.status # 404)
                       => LET base == FirstMatch(cars, req[p].cid).v IN
                          NoFolder(base)
                          => /\ req'[p].ext = "none"
                             /\ r.status = 200
                             /\ r.body.v["photos"] = <<>>
                             /\ r.body.v["cover_image"] = PyNone]_vars

\* C12 witness: a car with no folder was listed without a cover image and
\* without a call to the provider
C12_Witness ==
    \E p \in Procs :
      /\ req[p].pc = "done"
      /\ req[p].kind = "cars"
      /\ req[p].ext = "none"
      /\ req[p].resp.status = 200
      /\ req[p].resp.body.v # <<>>
      /\ \A c \in Range(req[p].resp.body.v) : c["cover_image"] = PyNone

\* C13: load_cars() calls that miss together each read the store on their own:
\* a call that has missed can always complete its read, wherever the other
\* calls stand; completing it replaces the entry under "cars" by the list this
\* call returns, stamped with the time of the set, and touches no other call;
\* and nothing else changes the cache.  So once all have completed the entry
\* is the list of the call whose set_cache ran last.
C13_LastWriterWins ==
    /\ [](\A p \in Procs :
            req[p].pc = "read_cars" => ENABLED LoadCarsRead(p))
    /\ [][\A p \in Procs :
            (req[p].pc = "read_cars" /\ req'[p].pc = "loaded")
            => /\ DOMAIN cache' = DOMAIN cache \cup {"cars"}
               /\ cache'["cars"] = [data |-> PyList(req'[p].cars), ts |-> now]
               /\ \A k \in DOMAIN cache \ {"cars"} : cache'[k] = cache[k]
               /\ \A q \in Procs \ {p} : req'[q] = req[q]]_vars
    /\ [][cache' # cache
            => \E p \in Procs :
                 req[p].pc = "read_cars" /\ req'[p].pc = "loaded"]_vars

\* C13 witness: two calls missed together, each read and stored a list of its
\* own, and the entry is the list of one of them and not the other's
C13_Witness ==
    /\ now = 0
    /\ \A p \in Procs :
         /\ req[p].pc = "loaded"
         /\ req[p].via = "miss"
         /\ req[p].cars # <<>>
    /\ req["r1"].cars # req["r2"].cars
    /\ cache["cars"].data = PyList(req["r2"].cars)

\* the TTL of the entry under key
TtlOf(key) == IF key = "cars" THEN CACHE_TTL_CARS ELSE CACHE_TTL_META

\* load_profile returns to the handler of p in this step from the cache
ProfileHit(p) ==
    /\ req[p].pc = "load_profile"
    /\ req'[p].pc = "done"

\* load_profile returns to the handler of p in this step what it has read
ProfileMiss(p) ==
    /\ req[p].pc = "hero"
    /\ req'[p].resp.status = 200

C15_CachedCarsNotMutated ==
    /\ [](("cars" \in DOMAIN cache)
            => \A c \in Range(cache["cars"].data.v) :
                 /\ "photos_folder_id" \in DOMAIN c
                 /\ "cover_image" \notin DOMAIN c
                 /\ "photos" \notin DOMAIN c)
    /\ [][\A p \in Procs :
            (/\ req'[p] # req[p]
             /\ req[p].pc # "read_cars")
            => cache' = cache]_vars
    /\ [][\A p \in Procs :
            (req[p].pc = "loaded" /\ req'[p].pc = "done")
            => \A q \in Procs \ {p} : req'[q] = req[q]]_vars

\* C15 witness: one request has answered the enriched list while another
\* still holds the same stored list, whose cars have their folders
C15_Witness ==
    \E p \in Procs, q \in Procs :
      /\ req[p].pc = "done"
      /\ req[p].kind = "cars"
      /\ req[p].resp.status = 200
      /\ req[p].resp.body.v # <<>>
      /\ \A c \in Range(req[p].resp.body.v) : c["cover_image"] # PyNone
      /\ req[q].pc = "loaded"
      /\ req[q].via = "hit"
      /\ cache["cars"].data = PyList(req[q].cars)
      /\ Len(req[q].cars) = Len(req[p].resp.body.v)
      /\ \A c \in Range(req[q].cars) : c.photos_folder_id # <<>>

\* C16: a call of get_cached leaves the cache as it is, also when it reports
\* an expired entry as absent; the cache changes only by a set_cache, which
\* gives its key the value set with the time of the set as timestamp and
\* leaves the other keys alone; so an expired entry stays, value and timestamp,
\* until the next set_cache on its key.
C16_GetLeavesCacheAlone ==
    /\ [][obs'.key # "" => cache' = cache]_vars
    /\ [][cache' # cache
            => \E key \in CacheKeys :
                 /\ DOMAIN cache' = DOMAIN cache \cup {key}
                 /\ cache'[key].data \in CacheValues
                 /\ cache'[key].ts = now
                 /\ \A k \in DOMAIN cache \ {key} : cache'[k] = cache[k]]_vars
    /\ [][\A k \in DOMAIN cache :
            (now' # now \/ obs'.key # "")
            => k \in DOMAIN cache' /\ cache'[k] = cache[k]]_vars

\* C16 witness: get_cached has just reported an expired entry as absent and
\* the entry is still there with its value and its old timestamp
C16_Witness ==
    /\ obs.key \in DOMAIN cache
    /\ obs.ttl > 0
    /\ now - cache[obs.key].ts > obs.ttl
    /\ obs.result = PyNone
    /\ cache[obs.key] = [data |-> PyList(<<1>>), ts |-> 0]

\* C17: when the listing of a folder raises while GET /api/cars enriches its
\* cars, or for the car GET /api/cars/{car_id} has matched, the request ends
\* in an error and the cache is left as it is; a request that answers has
\* every car of the list, each with the cover image (and the photos) of a
\* listing of its folder that was answered.
C17_PhotoFailurePropagates ==
    [][\A p \in Procs :
         (req[p].pc = "loaded" /\ req'[p].pc = "done")
         => LET cars == req[p].cars
                r == req'[p].resp
                Cover(c) == {FirstUrl(load_photos(PyStr(c.photos_folder_id), f)) :
                               f \in Listings}
            IN /\ cache' = cache
               /\ req'[p].ext = "raised"
                    => /\ r = ServerError
                       /\ \E c \in Range(cars) : c.photos_folder_id # <<>>
               /\ (req[p].kind = "cars" /\ r.status = 200)
                    => /\ Len(r.body.v) = Len(cars)
                       /\ \A i \in DOMAIN cars :
                            r.body.v[i]["cover_image"] \in Cover(cars[i])
               /\ (req[p].kind = "detail" /\ r.status = 200)
                    => r.body.v["cover_image"]
                         \in Cover(FirstMatch(cars, req[p].cid).v)]_vars

\* C17 witness: the listing raised for a car of a stored list of two, and
\* GET /api/cars failed with the list still stored
C17_Witness ==
    \E p \in Procs :
      /\ req[p].pc = "done"
      /\ req[p].kind = "cars"
      /\ req[p].ext = "raised"
      /\ req[p].resp = ServerError
      /\ "cars" \in DOMAIN cache
      /\ Len(cache["cars"].data.v) = 2
      /\ now - cache["cars"].ts <= CACHE_TTL_CARS

\* C18: the first step of GET /api/cars and of GET /api/cars/{car_id} is the
\* attempt to append the usage event: when it is over the attempt has been made
\* (it succeeded or failed) and load_cars() has not run yet; no later step of
\* the request makes or undoes an attempt; so every request under way or
\* answered has made its one attempt, those answered 404 or failed by their
\* load included.
C18_AppendBeforeLoad ==
    /\ [](\A p \in Procs :
            req[p].kind \in {"cars", "detail"}
            => req[p].logged \in {"ok", "failed"})
    /\ [][\A p \in Procs :
            /\ (req[p].pc = "idle" /\ req'[p].pc # "idle")
                 => /\ req'[p].kind \in {"cars", "detail"}
                         => /\ req'[p].logged \in {"ok", "failed"}
                            /\ req'[p].pc = "load_cars"
                            /\ req'[p].via = "none"
                            /\ req'[p].ext = "none"
                    /\ cache' = cache
            /\ (req[p].pc \notin {"idle", "done"})
                 => req'[p].logged = req[p].logged]_vars

\* C18 witness: a request answered 404 whose append had been attempted, and
\* failed
C18_Witness ==
    \E p \in Procs :
      /\ req[p].pc = "done"
      /\ req[p].kind = "detail"
      /\ req[p].resp = NotFound
      /\ req[p].logged = "failed"

\* C19 as stated: once a load_profile() call has stored the profile it
\* returned, every load_profile() call made within the next CACHE_TTL_META
\* seconds returns that same profile, with the same hero_image, without a call
\* to the store or to the provider.
C19_SameProfileWithinWindow ==
    [][\A p \in Procs, q \in Procs :
         (/\ req[p].pc = "done"
          /\ req[p].kind = "profile"
          /\ req[p].ext \in {"ok", "raised"}
          /\ req[p].resp.status = 200
          /\ now <= CACHE_TTL_META
          /\ req[q].pc = "load_profile"
          /\ req'[q].pc # "load_profile")
         => /\ req'[q].pc = "done"
            /\ req'[q].ext = "none"
            /\ req'[q].resp = req[p].resp]_vars

\* C19 (amended): the hero image is resolved only after a miss and is part of
\* the profile stored: a load_profile() call made while a profile stored at
\* most CACHE_TTL_META seconds ago is in the cache returns the profile of that
\* entry, the one stored last, with its hero_image (None included), makes no
\* call to the store or to the provider and leaves the cache as it is; a call
\* made otherwise reads the store before it resolves the hero image.
C19_HeroCachedWithProfile ==
    /\ [](("profile" \in DOMAIN cache)
            => /\ cache["profile"].data.t = "dict"
               /\ "hero_image" \in DOMAIN cache["profile"].data.v)
    /\ [][\A q \in Procs :
            /\ (req[q].pc = "load_profile" /\ req'[q].pc # "load_profile")
                 => IF HasFresh(cache, "profile", CACHE_TTL_META, now)
                    THEN /\ req'[q].pc = "done"
                         /\ req'[q].ext = "none"
                         /\ req'[q].resp = Ok(cache["profile"].data)
                         /\ cache' = cache
                    ELSE /\ req'[q].pc = "read_profile"
                         /\ cache' = cache
            /\ (req'[q].pc = "hero" /\ req[q].pc # "hero")
                 => req[q].pc = "read_profile"]_vars

\* C19 witness: the listing of the hero folder raised for one call, which
\* stored the profile without hero image, and a later call was answered that
\* profile from the cache
C19_Witness ==
    \E p \in Procs, q \in Procs :
      /\ req[p].pc = "done"
      /\ req[p].ext = "raised"
      /\ req[p].resp.status = 200
      /\ req[q].pc = "done"
      /\ req[q].kind = "profile"
      /\ req[q].ext = "none"
      /\ req[q].resp = req[p].resp
      /\ req[q].resp.body.v["hero_image"] = PyNone
      /\ cache["profile"].data = req[q].resp.body

====
